---- MODULE Spec2Model ----
(***************************************************************************)
(* Model of src/src/transforms.py: the three field normalizers             *)
(* (normalize_email, normalize_phone, normalize_address) and the pipeline  *)
(* transform_contacts that applies them column-wise to a table.            *)
(*                                                                         *)
(* A Python str is a sequence of one-character strings.  An Optional[str]  *)
(* cell is None, the pandas missing sentinel NaN, or Str(s).               *)
(***************************************************************************)
EXTENDS Integers, Sequences, FiniteSets, TLC

(***************************************************************************)
(* Bounds of the model.                                                    *)
(***************************************************************************)
MaxLen == 3
MaxDigits == 12
MaxCalls == 2
MaxRows == 2

(***************************************************************************)
(* Values.                                                                 *)
(***************************************************************************)
None == [kind |-> "None"]
NaN == [kind |-> "nan"]
Str(s) == [kind |-> "str", s |-> s]

(***************************************************************************)
(* Characters and the str methods the normalizers use.                     *)
(***************************************************************************)
UPPERCASE ==
  <<"A","B","C","D","E","F","G","H","I","J","K","L","M",
    "N","O","P","Q","R","S","T","U","V","W","X","Y","Z">>
LOWERCASE ==
  <<"a","b","c","d","e","f","g","h","i","j","k","l","m",
    "n","o","p","q","r","s","t","u","v","w","x","y","z">>
DIGITS == {"0","1","2","3","4","5","6","7","8","9"}
WHITESPACE == {" ", "\t"}

isupper(c) == \E i \in 1..26 : UPPERCASE[i] = c
islower(c) == \E i \in 1..26 : LOWERCASE[i] = c
isalpha(c) == isupper(c) \/ islower(c)
isdigit(c) == c \in DIGITS
isspace(c) == c \in WHITESPACE
\* \w of the re module: letters, digits and the underscore
isword(c) == isalpha(c) \/ isdigit(c) \/ c = "_"

lower_char(c) ==
  IF isupper(c) THEN LOWERCASE[CHOOSE i \in 1..26 : UPPERCASE[i] = c] ELSE c
upper_char(c) ==
  IF islower(c) THEN UPPERCASE[CHOOSE i \in 1..26 : LOWERCASE[i] = c] ELSE c

SetMin(S) == CHOOSE x \in S : \A y \in S : x <= y
SetMax(S) == CHOOSE x \in S : \A y \in S : x >= y

\* str.strip(): drop leading and trailing whitespace
strip_noop(s) == s
strip(s) ==
  LET keep == {i \in DOMAIN s : ~isspace(s[i])}
  IN  IF keep = {} THEN <<>> ELSE SubSeq(s, SetMin(keep), SetMax(keep))

\* str.lower()
lower_first_only(s) ==
  [i \in 1..Len(s) |-> IF i = 1 THEN lower_char(s[i]) ELSE s[i]]
lower(s) == [i \in 1..Len(s) |-> lower_char(s[i])]

\* str.startswith(c) for a one-character prefix
startswith_any(s, c) == Len(s) >= 1
startswith(s, c) == Len(s) >= 1 /\ s[1] = c

\* str.capitalize(): first character uppercased, the rest lowercased
capitalize_title(w) ==
  [i \in 1..Len(w) |->
     IF isalpha(w[i]) /\ \A k \in 1..(i-1) : ~isalpha(w[k])
     THEN upper_char(w[i]) ELSE lower_char(w[i])]
capitalize(w) ==
  [i \in 1..Len(w) |-> IF i = 1 THEN upper_char(w[i]) ELSE lower_char(w[i])]

\* str.split() with no separator: the maximal runs of non-whitespace
RECURSIVE split_from(_, _, _)
split_from(s, i, cur) ==
  IF i > Len(s)
  THEN IF cur = <<>> THEN <<>> ELSE <<cur>>
  ELSE IF isspace(s[i])
       THEN (IF cur = <<>> THEN <<>> ELSE <<cur>>) \o split_from(s, i + 1, <<>>)
       ELSE split_from(s, i + 1, Append(cur, s[i]))
split(s) == split_from(s, 1, <<>>)

\* sep.join(words)
RECURSIVE join(_, _)
join(sep, words) ==
  IF words = <<>> THEN <<>>
  ELSE IF Len(words) = 1 THEN words[1]
  ELSE words[1] \o sep \o join(sep, Tail(words))

(***************************************************************************)
(* The re.sub calls.                                                       *)
(***************************************************************************)
\* re.sub(r'\D', '', s): delete every character that is not a digit
re_sub_nondigit(s) == SelectSeq(s, isdigit)

isword_at(s, i) == i \in DOMAIN s /\ isword(s[i])
\* \b holds just before position i: exactly one neighbour is a word character
word_boundary(s, i) == isword_at(s, i - 1) # isword_at(s, i)

\* r'\bPAT\b' with re.IGNORECASE matches at position i of s
match_at_no_boundary(pat, s, i) ==
  /\ i + Len(pat) - 1 <= Len(s)
  /\ \A k \in 1..Len(pat) : lower_char(s[i + k - 1]) = lower_char(pat[k])
match_at_case_sensitive(pat, s, i) ==
  /\ i + Len(pat) - 1 <= Len(s)
  /\ \A k \in 1..Len(pat) : s[i + k - 1] = pat[k]
  /\ word_boundary(s, i)
  /\ word_boundary(s, i + Len(pat))
match_at(pat, s, i) ==
  /\ i + Len(pat) - 1 <= Len(s)
  /\ \A k \in 1..Len(pat) : lower_char(s[i + k - 1]) = lower_char(pat[k])
  /\ word_boundary(s, i)
  /\ word_boundary(s, i + Len(pat))

\* re.sub(r'\bPAT\b', repl, s, flags=re.IGNORECASE): leftmost,
\* non-overlapping matches, scanning from position i
RECURSIVE re_sub_from(_, _, _, _)
re_sub_from(pat, repl, s, i) ==
  IF i > Len(s) THEN <<>>
  ELSE IF match_at(pat, s, i)
       THEN repl \o re_sub_from(pat, repl, s, i + Len(pat))
       ELSE <<s[i]>> \o re_sub_from(pat, repl, s, i + 1)
re_sub(pat, repl, s) == re_sub_from(pat, repl, s, 1)

\* the ordered (pattern, replacement) pairs of normalize_address
ABBREVIATIONS ==
  << << <<"S","t">>,     <<"S","t","r","e","e","t">> >>,
     << <<"A","v","e">>, <<"A","v","e","n","u","e">> >>,
     << <<"R","d">>,     <<"R","o","a","d">> >>,
     << <<"D","r">>,     <<"D","r","i","v","e">> >>,
     << <<"L","n">>,     <<"L","a","n","e">> >>,
     << <<"W","a","y">>, <<"W","a","y">> >> >>

\* the first k substitutions applied in order
RECURSIVE standardize(_, _)
standardize(s, k) ==
  IF k = 0 THEN s
  ELSE re_sub(ABBREVIATIONS[k][1], ABBREVIATIONS[k][2], standardize(s, k - 1))

(***************************************************************************)
(* The normalizers.                                                        *)
(***************************************************************************)
\* pd.isna(v) or v is None
isna(v) == v.kind \in {"None", "nan"}

normalize_email(email) ==
  IF isna(email) THEN None
  ELSE LET email_str == strip(email.s)
       IN  IF email_str = <<>> THEN None
           ELSE Str(lower(email_str))

normalize_phone(phone) ==
  IF isna(phone) THEN None
  ELSE LET phone_str == strip(phone.s)
       IN  IF phone_str = <<>> THEN None
           ELSE LET digits == re_sub_nondigit(phone_str)
                IN  IF startswith(digits, "1") /\ Len(digits) = 11
                    THEN Str(<<"1", "-">> \o SubSeq(digits, 2, 4) \o <<"-">>
                             \o SubSeq(digits, 5, 7) \o <<"-">>
                             \o SubSeq(digits, 8, Len(digits)))
                    ELSE IF Len(digits) = 10
                    THEN Str(<<"(">> \o SubSeq(digits, 1, 3) \o <<")", " ">>
                             \o SubSeq(digits, 4, 6) \o <<"-">>
                             \o SubSeq(digits, 7, Len(digits)))
                    ELSE None

normalize_address(address) ==
  IF isna(address) THEN None
  ELSE LET address_str == strip(address.s)
       IN  IF address_str = <<>> THEN None
           ELSE LET expanded == standardize(address_str, Len(ABBREVIATIONS))
                    words == split(expanded)
                IN  Str(join(<<" ">>, [i \in 1..Len(words) |-> capitalize(words[i])]))

(***************************************************************************)
(* transform_contacts: a table is its column names and its rows, a row     *)
(* being the sequence of its cells in column order.                        *)
(***************************************************************************)
normalize_cell(col, v) ==
  CASE col = "email" -> normalize_email(v)
    [] col = "phone_number" -> normalize_phone(v)
    [] col = "address" -> normalize_address(v)
    [] OTHER -> v

\* df[col] = df[col].apply(normalizer): every cell of the column replaced
apply_column_dropna(table, col) ==
  LET kept(row) == \A c \in DOMAIN table.columns :
                     table.columns[c] = col => ~isna(row[c])
      rows == SelectSeq(table.rows, kept)
  IN  [columns |-> table.columns,
       rows |-> [r \in 1..Len(rows) |->
                  [c \in 1..Len(table.columns) |->
                     IF table.columns[c] = col
                     THEN normalize_cell(col, rows[r][c])
                     ELSE rows[r][c]]]]
apply_column(table, col) ==
  [columns |-> table.columns,
   rows |-> [r \in 1..Len(table.rows) |->
              [c \in 1..Len(table.columns) |->
                 IF table.columns[c] = col
                 THEN normalize_cell(col, table.rows[r][c])
                 ELSE table.rows[r][c]]]]

EXCEL == <<"e","x","c","e","l">>
NoTable == [columns |-> <<>>, rows |-> <<>>]
NoFile == [format |-> "none", table |-> NoTable]

(***************************************************************************)
(* Inputs.                                                                 *)
(***************************************************************************)
Alphabet == {" ", "S", "s", "t", "@", ".", "1"}
CharStrings == UNION {[1..k -> Alphabet] : k \in 0..MaxLen}

\* phone numbers: up to MaxDigits digits written in several styles
\* (every first and last digit of a few, the digits between all different)
DIGIT_RING == <<"0","1","2","3","4","5","6","7","8","9">>
DigitStrings ==
  {[i \in 1..k |-> IF i = 1 THEN first
                   ELSE IF i = k THEN last
                   ELSE DIGIT_RING[(i % 10) + 1]] :
     k \in 0..MaxDigits, first \in {"1", "5"}, last \in {"1", "7"}}
STYLES ==
  { [pre |-> <<>>, sep |-> <<>>, post |-> <<>>],
    [pre |-> <<" ", "(">>, sep |-> <<"-">>, post |-> <<" ">>],
    [pre |-> <<"t">>, sep |-> <<".", " ">>, post |-> <<>>] }
RECURSIVE chunks(_)
chunks(d) ==
  IF d = <<>> THEN <<>>
  ELSE IF Len(d) <= 3 THEN <<d>>
  ELSE <<SubSeq(d, 1, 3)>> \o chunks(SubSeq(d, 4, Len(d)))
decorate(d, st) == st.pre \o join(st.sep, chunks(d)) \o st.post
PhoneStrings == {decorate(d, st) : d \in DigitStrings, st \in STYLES}

\* addresses: one or two words around a separator
Words ==
  { <<"s","t">>, <<"S","T">>, <<"S","t">>, <<"a","v","e">>, <<"R","d">>,
    <<"d","R">>, <<"L","N">>, <<"w","a","y">>,
    <<"S","t","r","e","e","t">>, <<"S","t","a","n">>, <<"1","s","t">>,
    <<"m","A","i","n">> }
Separators ==
  { <<" ">>, <<" ", " ">>, <<"\t">>, <<".">>, <<".", " ">>, <<"-">>, <<"_">> }
WordStrings ==
  Words \cup {w1 \o sep \o w2 : w1 \in Words, sep \in Separators, w2 \in Words}
        \cup {sep \o w \o sep : w \in Words, sep \in Separators}

\* the examples of the test data
JOHN == <<" "," ","J","O","H","N","@","E","X","A","M","P","L","E",".","C","O","M"," "," ">>
NOT_AN_EMAIL == <<"n","o","t","-","a","n","-","e","m","a","i","l">>
USER_AT_HOST == <<"u","s","e","r","@","h","o","s","t">>
PHONE_PARENS == <<"(","5","5","5",")"," ","1","2","3","-","4","5","6","7">>
PHONE_DASHES == <<"5","5","5","-","1","2","3","-","4","5","6","8">>
PHONE_COUNTRY == <<"1","-","5","5","5","-","1","2","3","-","4","5","6","9">>
PHONE_SHORT == <<"1","2","3","4","5">>
PHONE_LONG == <<"1","2","3","4","5","6","7","8","9","0","1","2">>
MAIN_ST == <<"1","2","3"," ","M","a","i","n"," ","S","t">>
OAK_AVE == <<"4","5","6"," ","O","a","k"," ","A","v","e">>
PINE_RD == <<"7","8","9"," ","p","i","n","e"," ","r","d">>
Examples ==
  { JOHN, NOT_AN_EMAIL, USER_AT_HOST, PHONE_PARENS, PHONE_DASHES,
    PHONE_COUNTRY, PHONE_SHORT, PHONE_LONG, MAIN_ST, OAK_AVE, PINE_RD }

Inputs ==
  {None, NaN}
    \cup {Str(s) : s \in CharStrings \cup PhoneStrings \cup WordStrings \cup Examples}

\* tables as read_csv returns them: an empty cell is NaN
ColumnOrders ==
  { <<"name", "email", "phone_number", "address">>,
    <<"phone_number", "address", "name", "email">> }
Cells(col) ==
  CASE col = "email" -> {Str(<<" ","S","@","t",".">>), Str(<<"s","t">>)}
    [] col = "phone_number" -> {Str(PHONE_DASHES), NaN}
    [] col = "address" -> {Str(<<"1"," "," ","s","t">>), Str(<<" ">>)}
    [] OTHER -> {Str(<<"S","t"," ">>), NaN}
AllCells == UNION {Cells(col) : col \in {"name", "email", "phone_number", "address"}}
Rows(columns) ==
  {row \in [1..Len(columns) -> AllCells] :
     \A c \in 1..Len(columns) : row[c] \in Cells(columns[c])}
Tables ==
  UNION {{[columns |-> columns, rows |-> rows] :
            rows \in UNION {[1..n -> Rows(columns)] : n \in 0..MaxRows}} :
         columns \in ColumnOrders}
Formats == {EXCEL, <<"E","x","c","e","l">>, <<"c","s","v">>}

(***************************************************************************)
(* State: a call of one normalizer on one value (fn, arg, ret, prev,       *)
(* calls), or a run of transform_contacts (csv, df, written).              *)
(***************************************************************************)
VARIABLES pc, fn, arg, ret, prev, calls, csv, df, written
vars == <<pc, fn, arg, ret, prev, calls, csv, df, written>>

InitCall ==
  /\ pc = "call"
  /\ fn = "none"
  /\ arg \in Inputs
  /\ ret = None
  /\ prev = None
  /\ calls = 0
  /\ csv = NoTable
  /\ df = NoTable
  /\ written = NoFile

InitPipeline ==
  /\ pc = "pipeline"
  /\ fn = "none"
  /\ arg = None
  /\ ret = None
  /\ prev = None
  /\ calls = 0
  /\ csv \in Tables
  /\ df = NoTable
  /\ written = NoFile

Init == InitCall \/ InitPipeline

normalizer(f, v) ==
  CASE f = "normalize_email" -> normalize_email(v)
    [] f = "normalize_phone" -> normalize_phone(v)
    [] f = "normalize_address" -> normalize_address(v)

\* normalize_email(arg)
CallNormalizeEmail ==
  /\ pc = "call"
  /\ calls = 0
  /\ fn' = "normalize_email"
  /\ ret' = normalize_email(arg)
  /\ calls' = 1
  /\ UNCHANGED <<pc, arg, prev, csv, df, written>>

\* normalize_phone(arg)
CallNormalizePhone ==
  /\ pc = "call"
  /\ calls = 0
  /\ fn' = "normalize_phone"
  /\ ret' = normalize_phone(arg)
  /\ calls' = 1
  /\ UNCHANGED <<pc, arg, prev, csv, df, written>>

\* normalize_address(arg)
CallNormalizeAddress ==
  /\ pc = "call"
  /\ calls = 0
  /\ fn' = "normalize_address"
  /\ ret' = normalize_address(arg)
  /\ calls' = 1
  /\ UNCHANGED <<pc, arg, prev, csv, df, written>>

\* the same normalizer applied to its own present result
Renormalize ==
  /\ pc = "call"
  /\ calls >= 1
  /\ calls < MaxCalls
  /\ ret # None
  /\ prev' = ret
  /\ ret' = normalizer(fn, ret)
  /\ calls' = calls + 1
  /\ UNCHANGED <<pc, fn, arg, csv, df, written>>

\* transform_contacts(input_file, output_file, output_format)
TransformContacts ==
  /\ pc = "pipeline"
  /\ \E output_format \in Formats :
       LET out == apply_column(
                    apply_column(apply_column(csv, "email"), "phone_number"),
                    "address")
       IN  /\ df' = out
           /\ written' = [format |-> IF lower(output_format) = EXCEL
                                     THEN "excel" ELSE "csv",
                          table |-> out]
  /\ pc' = "done"
  /\ UNCHANGED <<fn, arg, ret, prev, calls, csv>>

Next ==
  \/ CallNormalizeEmail
  \/ CallNormalizePhone
  \/ CallNormalizeAddress
  \/ Renormalize
  \/ TransformContacts

Spec == Init /\ [][Next]_vars

(***************************************************************************)
(* Vocabulary of the properties, stated on the characters of the input     *)
(* and of the result.                                                      *)
(***************************************************************************)
\* the state after the first call of normalizer f: ret is f(arg)
Called(f) == pc = "call" /\ fn = f /\ calls = 1
IsStr(v) == v.kind = "str"
Contains(s, c) == \E i \in DOMAIN s : s[i] = c
AllWhitespace(s) == \A i \in DOMAIN s : s[i] \in WHITESPACE

DigitPositions(s) == {i \in DOMAIN s : s[i] \in DIGITS}
DigitCount(s) == Cardinality(DigitPositions(s))
\* the digits of s in their order
DigitOnlyForm(s) ==
  LET P == DigitPositions(s)
      nth(k) == CHOOSE i \in P : Cardinality({j \in P : j < i}) = k - 1
  IN  [k \in 1..Cardinality(P) |-> s[nth(k)]]
ValidPhoneDigits(s) ==
  \/ DigitCount(s) = 10
  \/ DigitCount(s) = 11 /\ s[SetMin(DigitPositions(s))] = "1"

\* C1: normalize_email returns None for every input that lacks an '@' or
\* lacks a '.'.
C1_InvalidEmailIsAbsent ==
  (Called("normalize_email") /\ IsStr(arg)
     /\ (~Contains(arg.s, "@") \/ ~Contains(arg.s, ".")))
  => ret = None

\* C2: when the input has exactly 10 digits, normalize_phone returns those
\* 10 digits as a bare digit string.
C2_TenDigitsBare ==
  (Called("normalize_phone") /\ IsStr(arg) /\ DigitCount(arg.s) = 10)
  => ret = Str(DigitOnlyForm(arg.s))

\* C3: when the input has exactly 11 digits, the first being '1',
\* normalize_phone drops that '1' and returns the other 10 digits bare.
C3_CountryCodeDropped ==
  (Called("normalize_phone") /\ IsStr(arg) /\ DigitCount(arg.s) = 11
     /\ arg.s[SetMin(DigitPositions(arg.s))] = "1")
  => ret = Str(Tail(DigitOnlyForm(arg.s)))

\* C4: normalize_phone returns None for every input whose digit count is
\* neither 10 nor 11 with a leading '1'.
C4_InvalidDigitCountIsAbsent ==
  (Called("normalize_phone") /\ IsStr(arg) /\ ~ValidPhoneDigits(arg.s))
  => ret = None
C4_Witness ==
  /\ Called("normalize_phone")
  /\ IsStr(arg)
  /\ DigitCount(arg.s) = 11
  /\ arg.s[SetMin(DigitPositions(arg.s))] = "5"
  /\ Contains(arg.s, "-")
  /\ ret = None

\* C5: each normalizer returns None for None, for the missing sentinel, for
\* the empty string and for every whitespace-only string.
C5_AbsencePropagation ==
  (pc = "call" /\ calls = 1 /\ (isna(arg) \/ AllWhitespace(arg.s)))
  => ret = None
C5_Witness ==
  /\ Called("normalize_address")
  /\ IsStr(arg)
  /\ Len(arg.s) >= 2
  /\ AllWhitespace(arg.s)
  /\ ret = None

\* C6: for an input holding an '@' and a '.', normalize_email returns the
\* input without its surrounding whitespace, every character lowercased and
\* nothing else changed.
C6_EmailTrimmedLowercased ==
  (Called("normalize_email") /\ IsStr(arg)
     /\ Contains(arg.s, "@") /\ Contains(arg.s, "."))
  => /\ IsStr(ret)
     /\ ret.s # <<>>
     /\ ~isspace(ret.s[1])
     /\ ~isspace(ret.s[Len(ret.s)])
     /\ \E a \in 0..Len(arg.s) :
          /\ a + Len(ret.s) <= Len(arg.s)
          /\ \A k \in 1..a : isspace(arg.s[k])
          /\ \A k \in (a + Len(ret.s) + 1)..Len(arg.s) : isspace(arg.s[k])
          /\ \A k \in 1..Len(ret.s) :
               /\ ~isupper(ret.s[k])
               /\ ret.s[k] \in {arg.s[a + k], lower_char(arg.s[a + k])}
               /\ ~isalpha(arg.s[a + k]) => ret.s[k] = arg.s[a + k]
C6_Witness ==
  /\ Called("normalize_email")
  /\ arg = Str(JOHN)
  /\ ret = Str(<<"j","o","h","n","@","e","x","a","m","p","l","e",".","c","o","m">>)

\* the whole words of s (maximal runs of word characters) that are one of
\* the five abbreviations, in any letter case, replaced by their expansion
EXPANSIONS ==
  { << <<"s","t">>,     <<"s","t","r","e","e","t">> >>,
    << <<"a","v","e">>, <<"a","v","e","n","u","e">> >>,
    << <<"r","d">>,     <<"r","o","a","d">> >>,
    << <<"d","r">>,     <<"d","r","i","v","e">> >>,
    << <<"l","n">>,     <<"l","a","n","e">> >> }
ExpansionOf(w) ==
  LET lw == [i \in 1..Len(w) |-> lower_char(w[i])]
  IN  IF \E p \in EXPANSIONS : p[1] = lw
      THEN (CHOOSE p \in EXPANSIONS : p[1] = lw)[2]
      ELSE lw
RunEnd(s, i) == SetMin({j \in i..Len(s) : ~isword_at(s, j + 1)})
RECURSIVE ExpandWords(_, _)
ExpandWords(s, i) ==
  IF i > Len(s) THEN <<>>
  ELSE IF ~isword(s[i]) THEN <<s[i]>> \o ExpandWords(s, i + 1)
  ELSE ExpansionOf(SubSeq(s, i, RunEnd(s, i))) \o ExpandWords(s, RunEnd(s, i) + 1)
NotSpace(c) == c \notin WHITESPACE
LettersOf(s) == SelectSeq([i \in 1..Len(s) |-> lower_char(s[i])], NotSpace)

\* C7: normalize_address expands St, Ave, Rd, Dr and Ln exactly where they
\* stand as whole words, in any letter case, and leaves the words that only
\* contain those letters as they are.
C7_WholeWordExpansion ==
  (Called("normalize_address") /\ IsStr(arg) /\ ret # None)
  => /\ LettersOf(ret.s) = LettersOf(ExpandWords(arg.s, 1))
     /\ arg.s = MAIN_ST
          => ret.s = <<"1","2","3"," ","M","a","i","n"," ","S","t","r","e","e","t">>
     /\ arg.s = PINE_RD
          => ret.s = <<"7","8","9"," ","P","i","n","e"," ","R","o","a","d">>
C7_Witness ==
  /\ Called("normalize_address")
  /\ arg = Str(<<"S","t","a","n"," ","s","t">>)
  /\ ret = Str(<<"S","t","a","n"," ","S","t","r","e","e","t">>)

\* C8: a normalizer applied to its own present result returns that result.
C8_Idempotent ==
  (pc = "call" /\ calls >= 2) => ret = prev
C8_Witness ==
  /\ pc = "call"
  /\ calls = 2
  /\ fn = "normalize_address"
  /\ arg = Str(PINE_RD)
  /\ prev # arg
  /\ ret = prev

\* C9: transform_contacts returns (and writes) a table with the rows and
\* columns of its input in the same order, every cell of email, phone_number
\* and address being the normalizer's result on the input cell at the same
\* place and every other cell unchanged.
C9_TransformContacts ==
  pc = "done"
  => /\ df.columns = csv.columns
     /\ Len(df.rows) = Len(csv.rows)
     /\ \A r \in 1..Len(csv.rows) :
          /\ Len(df.rows[r]) = Len(csv.columns)
          /\ \A c \in 1..Len(csv.columns) :
               df.rows[r][c] =
                 CASE csv.columns[c] = "email" -> normalize_email(csv.rows[r][c])
                   [] csv.columns[c] = "phone_number" -> normalize_phone(csv.rows[r][c])
                   [] csv.columns[c] = "address" -> normalize_address(csv.rows[r][c])
                   [] OTHER -> csv.rows[r][c]
     /\ written.table = df
C9_Witness ==
  /\ pc = "done"
  /\ Len(csv.rows) >= 2
  /\ csv.rows[1] # csv.rows[2]
  /\ \E r \in 1..Len(csv.rows) : \E c \in 1..Len(csv.columns) :
       /\ csv.columns[c] = "phone_number"
       /\ csv.rows[r][c] = NaN
       /\ df.rows[r][c] = None
  /\ \E r \in 1..Len(csv.rows) : \E c \in 1..Len(csv.columns) :
       /\ csv.columns[c] = "name"
       /\ csv.rows[r][c] = Str(<<"S","t"," ">>)
       /\ df.rows[r][c] = csv.rows[r][c]

\* the tokens of r are non-empty, separated by exactly one space, with no
\* whitespace before the first or after the last
SingleSpaced(r) ==
  /\ r # <<>>
  /\ \A i \in DOMAIN r :
       isspace(r[i]) => /\ r[i] = " "
                        /\ i > 1
                        /\ i < Len(r)
                        /\ ~isspace(r[i + 1])
\* r[i] is the first character of its token
TokenStart(r, i) == ~isspace(r[i]) /\ (i = 1 \/ isspace(r[i - 1]))
\* r[i] is the first letter of its token
FirstLetter(r, i) ==
  /\ isalpha(r[i])
  /\ \A k \in 1..(i - 1) :
       (\A m \in k..(i - 1) : ~isspace(r[m])) => ~isalpha(r[k])

====
